---- MODULE Spec2Model ----
(***************************************************************************)
(* PreparedStatement of the scylla driver                                  *)
(* (scylla/src/statement/prepared_statement.rs): the statement object with *)
(* its per-statement overrides, its duplication, and the partition-key     *)
(* serialisation compute_partition_key.                                    *)
(*                                                                         *)
(* Conventions.  A Rust Option is a sequence of length 0 (None) or 1       *)
(* (Some(x)).  Rust positions are 0-based, TLA+ sequences 1-based: the     *)
(* value at bind-marker index i is bound_values[i + 1].                    *)
(*                                                                         *)
(* SessionBuilder (scylla/src/transport/session_builder.rs) is modelled    *)
(* next to it: the known nodes and the options its fluent methods write    *)
(* into SessionConfig.                                                     *)
(*                                                                         *)
(* A byte string is kept run-length encoded: a sequence of runs            *)
(* [byte, count] with count >= 1 in which neighbouring runs carry          *)
(* different bytes.  Every byte string has exactly one such encoding, so   *)
(* equality of encodings is equality of byte strings, and a value of       *)
(* 65536 bytes costs one run.                                              *)
(***************************************************************************)
EXTENDS Integers, Sequences, FiniteSets, TLC

VARIABLES stmts, lastOp, bound_values, result, nops, builder

vars == <<stmts, lastOp, bound_values, result, nops, builder>>

-----------------------------------------------------------------------------
(* Option *)

None == <<>>

Some(x) == <<x>>

IsSome(o) == Len(o) = 1

Unwrap(o) == o[1]

-----------------------------------------------------------------------------
(* Bounds of the model *)

\* largest number of bound values passed to compute_partition_key
MaxValues == 3

\* number of PreparedStatement handles (the constructed one and its duplicates)
MaxHandles == 2

\* number of operations applied after construction
MaxOps == 2

\* number of tracing ids a statement collects
MaxTracingIds == 2

-----------------------------------------------------------------------------
(* Integer widths *)

\* u16::MAX, the largest length the 2-byte prefix can carry
U16Max == 65535

U16Mod == U16Max + 1

\* u16 subtraction and addition (wrapping, as in a release build)
SubU16(a, b) == (a - b) % U16Mod

AddU16(a, b) == (a + b) % U16Mod

-----------------------------------------------------------------------------
(* Byte strings (Bytes, BytesMut, &[u8]) *)

Run(b, n) == [byte |-> b, count |-> n]

\* one byte
Byte(b) == <<Run(b, 1)>>

\* n times the byte b
Fill(n, b) == IF n = 0 THEN <<>> ELSE <<Run(b, n)>>

\* slice::len
RECURSIVE BLen(_)
BLen(bs) == IF bs = <<>> THEN 0 ELSE bs[1].count + BLen(Tail(bs))

\* BytesMut::extend_from_slice: the bytes of b after the bytes of a
BConcat(a, b) ==
    IF a = <<>> THEN b
    ELSE IF b = <<>> THEN a
    ELSE IF a[Len(a)].byte = b[1].byte
         THEN SubSeq(a, 1, Len(a) - 1)
              \o <<Run(b[1].byte, a[Len(a)].count + b[1].count)>>
              \o Tail(b)
         ELSE a \o b

\* the byte string with the bytes listed in s
RECURSIVE FromBytes(_)
FromBytes(s) == IF s = <<>> THEN <<>> ELSE BConcat(Byte(s[1]), FromBytes(Tail(s)))

-----------------------------------------------------------------------------
(* PartitionKeyError and Result<Bytes, PartitionKeyError> *)

Ok(bytes) == [kind |-> "Ok", bytes |-> bytes, index |-> 0, len |-> 0]

NoPkIndexValue(index, len) ==
    [kind |-> "NoPkIndexValue", bytes |-> <<>>, index |-> index, len |-> len]

ValueTooLong(len) ==
    [kind |-> "ValueTooLong", bytes |-> <<>>, index |-> 0, len |-> len]

-----------------------------------------------------------------------------
(* compute_partition_key *)

\* variant: every call starts again from the first value
nth_rewinding(values, pos, n) ==
    IF n < Len(values)
    THEN [item |-> Some(values[n + 1]), pos |-> n + 1]
    ELSE [item |-> None, pos |-> Len(values)]

\* Iterator::nth on bound_values.iter(): the iterator has consumed pos items;
\* nth(n) skips n items and yields the next one, or yields None and leaves
\* the iterator exhausted.
nth(values, pos, n) ==
    IF pos + n < Len(values)
    THEN [item |-> Some(values[pos + n + 1]), pos |-> pos + n + 1]
    ELSE [item |-> None, pos |-> Len(values)]

\* BufMut::put_u16: big-endian
put_u16(n) == BConcat(Byte(n \div 256), Byte(n % 256))

\* variant: the single column framed like a composite component
single_column_key_framed(pk_index, values) ==
    LET r == nth(values, 0, pk_index.index)
    IN  IF r.item = None
        THEN NoPkIndexValue(pk_index.index, Len(values))
        ELSE IF IsSome(Unwrap(r.item))
             THEN Ok(BConcat(BConcat(put_u16(BLen(Unwrap(Unwrap(r.item)))),
                                     Unwrap(Unwrap(r.item))), Byte(0)))
             ELSE Ok(<<>>)

\* variant: the first bound value is taken, whatever the key index
single_column_key_first_value(pk_index, values) ==
    LET r == nth(values, 0, 0)
    IN  IF r.item = None
        THEN NoPkIndexValue(pk_index.index, Len(values))
        ELSE IF IsSome(Unwrap(r.item))
             THEN Ok(Unwrap(Unwrap(r.item)))
             ELSE Ok(<<>>)

\* single-column path: the raw bytes of the value, nothing for a null
single_column_key(pk_index, values) ==
    LET r == nth(values, 0, pk_index.index)
    IN  IF r.item = None
        THEN NoPkIndexValue(pk_index.index, Len(values))
        ELSE IF IsSome(Unwrap(r.item))
             THEN Ok(Unwrap(Unwrap(r.item)))
             ELSE Ok(<<>>)

\* variant: the value goes to the first free slot, in bind-marker order
place_in_bind_order(pk_values, pk_index, v) ==
    [pk_values EXCEPT ![CHOOSE k \in 1..Len(pk_values) :
                            /\ pk_values[k] = None
                            /\ \A j \in 1..(k - 1) : pk_values[j] /= None]
                      = Some(v)]

\* pk_values[pk_index.sequence as usize] = Some(v)
place(pk_values, pk_index, v) ==
    [pk_values EXCEPT ![pk_index.sequence + 1] = Some(v)]

\* variant: a null is placed as an empty value
slot_null_as_empty(pk_values, pk_index, next_val) ==
    IF IsSome(next_val)
    THEN place(pk_values, pk_index, Unwrap(next_val))
    ELSE place(pk_values, pk_index, <<>>)

\* if let Some(v) = next_val { pk_values[..] = Some(v); .. }: a null leaves
\* its slot empty
slot(pk_values, pk_index, next_val) ==
    IF IsSome(next_val)
    THEN place(pk_values, pk_index, Unwrap(next_val))
    ELSE pk_values

\* variant: the offset stays on the index just read
next_offset_no_advance(pk_index) == pk_index.index

\* values_iter_offset = pk_index.index + 1
next_offset(pk_index) == AddU16(pk_index.index, 1)

\* variant: the limit excludes 65535
fits_u16_exclusive(len) == len < U16Max

\* variant: the length is truncated instead of checked
fits_u16_unchecked(len) == TRUE

\* v.len().try_into::<u16>()
fits_u16(len) == len <= U16Max

\* variant: no 0x00 after the component
emit_component_no_terminator(buf, v) ==
    BConcat(BConcat(buf, put_u16(BLen(v))), v)

\* body of the second loop for one non-null component
emit_component(buf, v) ==
    BConcat(BConcat(BConcat(buf, put_u16(BLen(v))), v), Byte(0))

\* second loop: for v in pk_values.iter().flatten()
RECURSIVE emit_loop(_, _, _)
emit_loop(pk_values, k, buf) ==
    IF k > Len(pk_values)
    THEN Ok(buf)
    ELSE IF ~IsSome(pk_values[k])
         THEN emit_loop(pk_values, k + 1, buf)
         ELSE LET v == Unwrap(pk_values[k])
              IN  IF ~fits_u16(BLen(v))
                  THEN ValueTooLong(BLen(v))
                  ELSE emit_loop(pk_values, k + 1, emit_component(buf, v))

\* variant: the length of a value is checked as soon as it is looked up
RECURSIVE lookup_loop_eager(_, _, _, _, _, _)
lookup_loop_eager(pk_indexes, values, k, pos, values_iter_offset, pk_values) ==
    IF k > Len(pk_indexes)
    THEN emit_loop(pk_values, 1, <<>>)
    ELSE LET pk_index == pk_indexes[k]
             r == nth(values, pos, SubU16(pk_index.index, values_iter_offset))
         IN  IF r.item = None
             THEN NoPkIndexValue(pk_index.index, Len(values))
             ELSE IF /\ IsSome(Unwrap(r.item))
                     /\ ~fits_u16(BLen(Unwrap(Unwrap(r.item))))
                  THEN ValueTooLong(BLen(Unwrap(Unwrap(r.item))))
                  ELSE lookup_loop_eager(pk_indexes, values, k + 1, r.pos,
                                         next_offset(pk_index),
                                         slot(pk_values, pk_index, Unwrap(r.item)))

\* first loop: for pk_index in &self.metadata.pk_indexes, then the second loop
RECURSIVE lookup_loop(_, _, _, _, _, _)
lookup_loop(pk_indexes, values, k, pos, values_iter_offset, pk_values) ==
    IF k > Len(pk_indexes)
    THEN emit_loop(pk_values, 1, <<>>)
    ELSE LET pk_index == pk_indexes[k]
             r == nth(values, pos, SubU16(pk_index.index, values_iter_offset))
         IN  IF r.item = None
             THEN NoPkIndexValue(pk_index.index, Len(values))
             ELSE lookup_loop(pk_indexes, values, k + 1, r.pos,
                              next_offset(pk_index),
                              slot(pk_values, pk_index, Unwrap(r.item)))

\* the lookups of the first loop, one record per iteration up to the first
\* missing value: the index looked up, the running offset and the iterator
\* position before the lookup, the item nth yielded, the position after it
RECURSIVE lookup_steps(_, _, _, _, _)
lookup_steps(pk_indexes, values, k, pos, values_iter_offset) ==
    IF k > Len(pk_indexes)
    THEN <<>>
    ELSE LET pk_index == pk_indexes[k]
             r == nth(values, pos, SubU16(pk_index.index, values_iter_offset))
             step == [index |-> pk_index.index, offset |-> values_iter_offset,
                      from |-> pos, item |-> r.item, to |-> r.pos]
         IN  IF r.item = None
             THEN <<step>>
             ELSE <<step>> \o lookup_steps(pk_indexes, values, k + 1, r.pos,
                                           next_offset(pk_index))

compute_partition_key(self, values) ==
    LET pk_indexes == self.metadata.pk_indexes
    IN  IF Len(pk_indexes) = 1
        THEN single_column_key(pk_indexes[1], values)
        ELSE lookup_loop(pk_indexes, values, 1, 0, 0,
                         [i \in 1..Len(pk_indexes) |-> None])

-----------------------------------------------------------------------------
(* PreparedStatement: construction, duplication, accessors *)

\* PartitionerName::default()
DefaultPartitioner == "Murmur3"

new(id, is_lwt, metadata, statement, page_size, config) ==
    [config              |-> config,
     prepare_tracing_ids |-> <<>>,
     id                  |-> id,
     metadata            |-> metadata,
     statement           |-> statement,
     page_size           |-> page_size,
     partitioner_name    |-> DefaultPartitioner,
     is_confirmed_lwt    |-> is_lwt]

\* variant: the derived Clone, which copies the tracing ids too
clone_derived(self) == self

\* variant: the duplicate is not confirmed as an LWT
clone_unconfirmed_lwt(self) ==
    [config              |-> self.config,
     prepare_tracing_ids |-> <<>>,
     id                  |-> self.id,
     metadata            |-> self.metadata,
     statement           |-> self.statement,
     page_size           |-> self.page_size,
     partitioner_name    |-> self.partitioner_name,
     is_confirmed_lwt    |-> FALSE]

\* variant: the duplicate starts from empty metadata
clone_default_metadata(self) ==
    [config              |-> self.config,
     prepare_tracing_ids |-> <<>>,
     id                  |-> self.id,
     metadata            |-> [col_specs |-> <<>>, pk_indexes |-> <<>>],
     statement           |-> self.statement,
     page_size           |-> self.page_size,
     partitioner_name    |-> self.partitioner_name,
     is_confirmed_lwt    |-> self.is_confirmed_lwt]

clone(self) ==
    [config              |-> self.config,
     prepare_tracing_ids |-> <<>>,
     id                  |-> self.id,
     metadata            |-> self.metadata,
     statement           |-> self.statement,
     page_size           |-> self.page_size,
     partitioner_name    |-> self.partitioner_name,
     is_confirmed_lwt    |-> self.is_confirmed_lwt]

get_id(self) == self.id

get_statement(self) == self.statement

set_page_size(self, page_size) == [self EXCEPT !.page_size = Some(page_size)]

disable_paging(self) == [self EXCEPT !.page_size = None]

get_page_size(self) == self.page_size

get_prepare_tracing_ids(self) == self.prepare_tracing_ids

is_token_aware(self) == ~(self.metadata.pk_indexes = <<>>)

is_confirmed_lwt(self) == self.is_confirmed_lwt

\* variant: the keyspace of the last column descriptor
get_keyspace_name_of_last(self) ==
    LET col_specs == self.metadata.col_specs
    IN  IF col_specs = <<>>
        THEN None
        ELSE Some(col_specs[Len(col_specs)].table_spec.ks_name)

\* col_specs.first().map(|col_spec| col_spec.table_spec.ks_name.as_str())
get_keyspace_name(self) ==
    LET col_specs == self.metadata.col_specs
        first == IF col_specs = <<>> THEN None ELSE Some(col_specs[1])
    IN  IF IsSome(first) THEN Some(Unwrap(first).table_spec.ks_name) ELSE None

\* col_specs.first().map(|col_spec| col_spec.table_spec.table_name.as_str())
get_table_name(self) ==
    LET col_specs == self.metadata.col_specs
        first == IF col_specs = <<>> THEN None ELSE Some(col_specs[1])
    IN  IF IsSome(first) THEN Some(Unwrap(first).table_spec.table_name) ELSE None

set_consistency(self, c) == [self EXCEPT !.config.consistency = Some(c)]

get_consistency(self) == self.config.consistency

\* variant: the argument is stored as it is, None clears the field
set_serial_consistency_flat(self, sc) ==
    [self EXCEPT !.config.serial_consistency =
                     IF IsSome(sc) THEN Some(sc) ELSE None]

set_serial_consistency(self, sc) ==
    [self EXCEPT !.config.serial_consistency = Some(sc)]

\* Option<Option<SerialConsistency>>::flatten
get_serial_consistency(self) ==
    IF IsSome(self.config.serial_consistency)
    THEN Unwrap(self.config.serial_consistency)
    ELSE None

set_is_idempotent(self, is_idempotent) ==
    [self EXCEPT !.config.is_idempotent = is_idempotent]

get_is_idempotent(self) == self.config.is_idempotent

set_tracing(self, should_trace) == [self EXCEPT !.config.tracing = should_trace]

get_tracing(self) == self.config.tracing

\* variant: a None argument leaves the stored timestamp in place
set_timestamp_if_some(self, timestamp) ==
    IF IsSome(timestamp)
    THEN [self EXCEPT !.config.timestamp = timestamp]
    ELSE self

set_timestamp(self, timestamp) == [self EXCEPT !.config.timestamp = timestamp]

get_timestamp(self) == self.config.timestamp

\* variant: the whole deadline pair is replaced, the timestamp is dropped
set_request_timeout_resetting(self, timeout) ==
    [self EXCEPT !.config.request_timeout = timeout,
                 !.config.timestamp = None]

set_request_timeout(self, timeout) ==
    [self EXCEPT !.config.request_timeout = timeout]

get_request_timeout(self) == self.config.request_timeout

set_partitioner_name(self, partitioner_name) ==
    [self EXCEPT !.partitioner_name = partitioner_name]

get_prepared_metadata(self) == self.metadata

get_partitioner_name(self) == self.partitioner_name

set_history_listener(self, history_listener) ==
    [self EXCEPT !.config.history_listener = Some(history_listener)]

\* variant: the listener is returned but stays installed
remove_history_listener_as_ref(self) == self

\* Option::take: leaves None behind
remove_history_listener(self) == [self EXCEPT !.config.history_listener = None]

set_execution_profile_handle(self, profile_handle) ==
    [self EXCEPT !.config.execution_profile_handle = profile_handle]

get_execution_profile_handle(self) == self.config.execution_profile_handle

-----------------------------------------------------------------------------
(* SessionBuilder and the part of SessionConfig its methods write *)

\* KnownNode::Hostname(String) and KnownNode::Address(SocketAddr)
Hostname(hostname) == [kind |-> "Hostname", value |-> hostname]

Address(node_addr) == [kind |-> "Address", value |-> node_addr]

\* SessionConfig::new(): no known node, no compression, TCP_NODELAY on, no
\* keyspace
SessionConfig_new ==
    [known_nodes             |-> <<>>,
     compression             |-> None,
     tcp_nodelay             |-> TRUE,
     used_keyspace           |-> None,
     keyspace_case_sensitive |-> FALSE]

\* SessionConfig::add_known_node
add_known_node(config, hostname) ==
    [config EXCEPT !.known_nodes = Append(@, Hostname(hostname))]

\* SessionConfig::add_known_node_addr
add_known_node_addr(config, node_addr) ==
    [config EXCEPT !.known_nodes = Append(@, Address(node_addr))]

\* SessionConfig::add_known_nodes: one add_known_node per hostname, in order
RECURSIVE add_known_nodes(_, _)
add_known_nodes(config, hostnames) ==
    IF hostnames = <<>>
    THEN config
    ELSE add_known_nodes(add_known_node(config, Head(hostnames)),
                         Tail(hostnames))

\* SessionConfig::add_known_nodes_addr: one add_known_node_addr per address
RECURSIVE add_known_nodes_addr(_, _)
add_known_nodes_addr(config, node_addrs) ==
    IF node_addrs = <<>>
    THEN config
    ELSE add_known_nodes_addr(add_known_node_addr(config, Head(node_addrs)),
                              Tail(node_addrs))

SessionBuilder_new == [config |-> SessionConfig_new]

known_node(self, hostname) ==
    [self EXCEPT !.config = add_known_node(@, hostname)]

known_node_addr(self, node_addr) ==
    [self EXCEPT !.config = add_known_node_addr(@, node_addr)]

known_nodes(self, hostnames) ==
    [self EXCEPT !.config = add_known_nodes(@, hostnames)]

\* variant: the addresses are handed to the hostname method
known_nodes_addr_as_hostnames(self, node_addrs) ==
    [self EXCEPT !.config = add_known_nodes(@, node_addrs)]

known_nodes_addr(self, node_addrs) ==
    [self EXCEPT !.config = add_known_nodes_addr(@, node_addrs)]

compression(self, c) == [self EXCEPT !.config.compression = c]

tcp_nodelay(self, nodelay) == [self EXCEPT !.config.tcp_nodelay = nodelay]

\* variant: the case-sensitivity flag is not stored
use_keyspace_name_only(self, keyspace_name, case_sensitive) ==
    [self EXCEPT !.config.used_keyspace = Some(keyspace_name)]

use_keyspace(self, keyspace_name, case_sensitive) ==
    [self EXCEPT !.config.used_keyspace = Some(keyspace_name),
                 !.config.keyspace_case_sensitive = case_sensitive]

-----------------------------------------------------------------------------
(* Input values *)

\* byte strings bound to key columns
X == FromBytes(<<222, 173, 190, 239>>)

Y == FromBytes(<<202, 254>>)

Empty == <<>>

Big == Fill(U16Max, 7)

Huge == Fill(U16Max + 1, 8)

Huger == Fill(U16Max + 2, 9)

\* one bound value: null, or a byte string
SmallValues == {None, Some(Empty), Some(Y), Some(X)}

Values == SmallValues \cup {Some(Big), Some(Huge), Some(Huger)}

SeqsUpTo(S, n) == UNION {[1..m -> S] : m \in 0..n}

\* the bound values of one execution
BoundValues == SeqsUpTo(Values, MaxValues)

\* largest bind-marker index of a partition-key column
MaxIndex == 2

\* the k-th smallest element of a set of numbers
KthOf(I, k) == CHOOSE i \in I : Cardinality({j \in I : j < i}) = k - 1

\* the assignments of the key column numbers 0..n-1 to n entries
KeyOrders(n) ==
    {p \in [1..n -> 0..(n - 1)] : \A i, j \in 1..n : i # j => p[i] # p[j]}

\* pk_indexes of n key columns as deser_prepared_metadata leaves them: sorted
\* by index, the indexes unique, the sequences a permutation of 0..n-1
PkIndexesOfLen(n) ==
    {[k \in 1..n |-> [index |-> KthOf(I, k), sequence |-> p[k]]] :
        I \in {J \in SUBSET (0..MaxIndex) : Cardinality(J) = n},
        p \in KeyOrders(n)}

PkIndexSets == UNION {PkIndexesOfLen(n) : n \in 0..(MaxIndex + 1)}

ColumnSpec(ks, table, name) ==
    [table_spec |-> [ks_name |-> ks, table_name |-> table], name |-> name]

ColSpecs == <<ColumnSpec("ks", "t", "a"), ColumnSpec("ks", "t", "b"),
              ColumnSpec("ks", "t", "c")>>

PreparedMetadata(pk_indexes) == [col_specs |-> ColSpecs, pk_indexes |-> pk_indexes]

Consistencies == {"One", "Quorum"}

SerialConsistencies == {"Serial", "LocalSerial"}

Timestamps == {-1, 42}

Durations == {1, 30}

Listeners == {"listener1", "listener2"}

ProfileHandles == {"profile1", "profile2"}

Partitioners == {DefaultPartitioner, "CDC"}

TracingIds == {"uuid1", "uuid2"}

PageSizes == {-1, 0, 1, 5000}

\* the page_size argument of new: it is stored as given
NewPageSizes == {0, 1, 5000}

\* the id and the text the server prepared
StatementId == FromBytes(<<1, 2>>)

StatementText == "SELECT"

Opt(S) == {None} \cup {Some(x) : x \in S}

\* a StatementConfig with no override, and one with every override set
ConfigUnset ==
    [consistency              |-> None,
     serial_consistency       |-> None,
     is_idempotent            |-> FALSE,
     tracing                  |-> FALSE,
     timestamp                |-> None,
     request_timeout          |-> None,
     history_listener         |-> None,
     execution_profile_handle |-> None]

ConfigSet ==
    [consistency              |-> Some("One"),
     serial_consistency       |-> Some(Some("Serial")),
     is_idempotent            |-> TRUE,
     tracing                  |-> TRUE,
     timestamp                |-> Some(42),
     request_timeout          |-> Some(30),
     history_listener         |-> Some("listener1"),
     execution_profile_handle |-> Some("profile1")]

Configs == {ConfigUnset, ConfigSet}

\* the pk_indexes of the statements whose overrides are exercised
ObjPkIndexes ==
    {<<>>,
     <<[index |-> 1, sequence |-> 0]>>,
     <<[index |-> 0, sequence |-> 1], [index |-> 1, sequence |-> 0]>>}

ObjBoundValues ==
    {<<>>, <<Some(X)>>, <<Some(X), Some(Y)>>, <<None, None>>,
     <<Some(Huge), Some(X)>>}

-----------------------------------------------------------------------------
(* State *)

Handles == 1..MaxHandles

Live(h) == IsSome(stmts[h])

S(h) == Unwrap(stmts[h])

\* the argument of the last call, in one shape for every method: a number,
\* a name or a flag, and whether it was given at all (an Option argument)
NoArg == [some |-> FALSE, n |-> 0, s |-> "", b |-> FALSE, l |-> <<>>]

IntArg(n) == [some |-> TRUE, n |-> n, s |-> "", b |-> FALSE, l |-> <<>>]

StrArg(s) == [some |-> TRUE, n |-> 0, s |-> s, b |-> FALSE, l |-> <<>>]

BoolArg(b) == [some |-> TRUE, n |-> 0, s |-> "", b |-> b, l |-> <<>>]

\* a name together with a flag
StrBoolArg(s, b) == [some |-> TRUE, n |-> 0, s |-> s, b |-> b, l |-> <<>>]

\* a slice of names
ListArg(l) == [some |-> TRUE, n |-> 0, s |-> "", b |-> FALSE, l |-> l]

OptIntArg(o) == IF IsSome(o) THEN IntArg(Unwrap(o)) ELSE NoArg

OptStrArg(o) == IF IsSome(o) THEN StrArg(Unwrap(o)) ELSE NoArg

\* the last call: method, receiver, the handle it produced or changed, its
\* argument, and whether it panicked
Op(op, h, dst, arg, panicked) ==
    [op |-> op, h |-> h, dst |-> dst, arg |-> arg, panicked |-> panicked]

\* a &mut self method ran on handle h with argument arg and left it as self
Update(op, h, arg, self) ==
    /\ stmts' = [stmts EXCEPT ![h] = Some(self)]
    /\ lastOp' = Op(op, h, h, arg, FALSE)
    /\ nops' = nops + 1
    /\ UNCHANGED <<bound_values, result, builder>>

Init ==
    /\ \E is_lwt \in BOOLEAN, pk \in ObjPkIndexes, page_size \in Opt(NewPageSizes),
          config \in Configs :
          /\ stmts = [h \in Handles |->
                        IF h = 1
                        THEN Some(new(StatementId, is_lwt, PreparedMetadata(pk),
                                      StatementText, page_size, config))
                        ELSE None]
          /\ lastOp = Op("new", 1, 1, BoolArg(is_lwt), FALSE)
    /\ bound_values = <<>>
    /\ result = None
    /\ nops = 0
    /\ builder = SessionBuilder_new

-----------------------------------------------------------------------------
(* Operations *)

Clone(h, dst) ==
    /\ Live(h) /\ ~Live(dst) /\ nops < MaxOps
    /\ stmts' = [stmts EXCEPT ![dst] = Some(clone(S(h)))]
    /\ lastOp' = Op("clone", h, dst, NoArg, FALSE)
    /\ nops' = nops + 1
    /\ UNCHANGED <<bound_values, result, builder>>

\* variant: no assertion, the page size is stored as given
SetPageSizeUnchecked(h, page_size) ==
    /\ Live(h) /\ nops < MaxOps
    /\ Update("set_page_size", h, IntArg(page_size),
              set_page_size(S(h), page_size))

\* assert!(page_size > 0): the panic leaves the statement as it was
SetPageSize(h, page_size) ==
    /\ Live(h) /\ nops < MaxOps
    /\ IF page_size > 0
       THEN Update("set_page_size", h, IntArg(page_size),
                   set_page_size(S(h), page_size))
       ELSE /\ lastOp' = Op("set_page_size", h, h, IntArg(page_size), TRUE)
            /\ nops' = nops + 1
            /\ UNCHANGED <<stmts, bound_values, result, builder>>

DisablePaging(h) ==
    /\ Live(h) /\ nops < MaxOps
    /\ Update("disable_paging", h, NoArg, disable_paging(S(h)))

\* variant: the key buffer of the previous call is kept and extended
ComputePartitionKeyKeepingBuffer(h, values) ==
    /\ Live(h) /\ nops < MaxOps
    /\ result' = LET r == compute_partition_key(S(h), values)
                 IN  IF IsSome(result) /\ r.kind = "Ok"
                     THEN Some(Ok(BConcat(Unwrap(result).bytes, r.bytes)))
                     ELSE Some(r)
    /\ bound_values' = values
    /\ lastOp' = Op("compute_partition_key", h, h, NoArg, FALSE)
    /\ nops' = nops + 1
    /\ UNCHANGED <<stmts, builder>>

ComputePartitionKey(h, values) ==
    /\ Live(h) /\ nops < MaxOps
    /\ result' = Some(compute_partition_key(S(h), values))
    /\ bound_values' = values
    /\ lastOp' = Op("compute_partition_key", h, h, NoArg, FALSE)
    /\ nops' = nops + 1
    /\ UNCHANGED <<stmts, builder>>

\* variant: the override set is shared by every handle
SetConsistencyShared(h, c) ==
    /\ Live(h) /\ nops < MaxOps
    /\ stmts' = [k \in Handles |->
                   IF Live(k) THEN Some(set_consistency(S(k), c)) ELSE None]
    /\ lastOp' = Op("set_consistency", h, h, StrArg(c), FALSE)
    /\ nops' = nops + 1
    /\ UNCHANGED <<bound_values, result, builder>>

SetConsistency(h, c) ==
    /\ Live(h) /\ nops < MaxOps
    /\ Update("set_consistency", h, StrArg(c), set_consistency(S(h), c))

SetSerialConsistency(h, sc) ==
    /\ Live(h) /\ nops < MaxOps
    /\ Update("set_serial_consistency", h, OptStrArg(sc),
              set_serial_consistency(S(h), sc))

SetIsIdempotent(h, is_idempotent) ==
    /\ Live(h) /\ nops < MaxOps
    /\ Update("set_is_idempotent", h, BoolArg(is_idempotent),
              set_is_idempotent(S(h), is_idempotent))

SetTracing(h, should_trace) ==
    /\ Live(h) /\ nops < MaxOps
    /\ Update("set_tracing", h, BoolArg(should_trace),
              set_tracing(S(h), should_trace))

SetTimestamp(h, timestamp) ==
    /\ Live(h) /\ nops < MaxOps
    /\ Update("set_timestamp", h, OptIntArg(timestamp),
              set_timestamp(S(h), timestamp))

SetRequestTimeout(h, timeout) ==
    /\ Live(h) /\ nops < MaxOps
    /\ Update("set_request_timeout", h, OptIntArg(timeout),
              set_request_timeout(S(h), timeout))

SetPartitionerName(h, partitioner_name) ==
    /\ Live(h) /\ nops < MaxOps
    /\ Update("set_partitioner_name", h, StrArg(partitioner_name),
              set_partitioner_name(S(h), partitioner_name))

SetHistoryListener(h, history_listener) ==
    /\ Live(h) /\ nops < MaxOps
    /\ Update("set_history_listener", h, StrArg(history_listener),
              set_history_listener(S(h), history_listener))

RemoveHistoryListener(h) ==
    /\ Live(h) /\ nops < MaxOps
    /\ Update("remove_history_listener", h, NoArg,
              remove_history_listener(S(h)))

SetExecutionProfileHandle(h, profile_handle) ==
    /\ Live(h) /\ nops < MaxOps
    /\ Update("set_execution_profile_handle", h, OptStrArg(profile_handle),
              set_execution_profile_handle(S(h), profile_handle))

\* pub prepare_tracing_ids: the session pushes the tracing id of each prepare
PushTracingId(h, tracing_id) ==
    /\ Live(h) /\ nops < MaxOps
    /\ Len(S(h).prepare_tracing_ids) < MaxTracingIds
    /\ Update("push_tracing_id", h, StrArg(tracing_id),
              [S(h) EXCEPT !.prepare_tracing_ids = Append(@, tracing_id)])

Next ==
    \/ \E h, dst \in Handles : Clone(h, dst)
    \/ \E h \in Handles, n \in PageSizes : SetPageSize(h, n)
    \/ \E h \in Handles : DisablePaging(h)
    \/ \E h \in Handles, values \in ObjBoundValues : ComputePartitionKey(h, values)
    \/ \E h \in Handles, c \in Consistencies : SetConsistency(h, c)
    \/ \E h \in Handles, sc \in Opt(SerialConsistencies) : SetSerialConsistency(h, sc)
    \/ \E h \in Handles, b \in BOOLEAN : SetIsIdempotent(h, b)
    \/ \E h \in Handles, b \in BOOLEAN : SetTracing(h, b)
    \/ \E h \in Handles, t \in Opt(Timestamps) : SetTimestamp(h, t)
    \/ \E h \in Handles, d \in Opt(Durations) : SetRequestTimeout(h, d)
    \/ \E h \in Handles, p \in Partitioners : SetPartitionerName(h, p)
    \/ \E h \in Handles, l \in Listeners : SetHistoryListener(h, l)
    \/ \E h \in Handles : RemoveHistoryListener(h)
    \/ \E h \in Handles, p \in Opt(ProfileHandles) : SetExecutionProfileHandle(h, p)
    \/ \E h \in Handles, u \in TracingIds : PushTracingId(h, u)

Spec == Init /\ [][Next]_vars

-----------------------------------------------------------------------------
(* compute_partition_key over every key layout and every bound-value list *)

InitPk ==
    /\ \E pk \in PkIndexSets :
          stmts = [h \in Handles |->
                     IF h = 1
                     THEN Some(new(StatementId, FALSE, PreparedMetadata(pk),
                                   StatementText, None, ConfigUnset))
                     ELSE None]
    /\ lastOp = Op("new", 1, 1, BoolArg(FALSE), FALSE)
    /\ bound_values = <<>>
    /\ result = None
    /\ nops = 0
    /\ builder = SessionBuilder_new

NextPk == \E values \in BoundValues : nops = 0 /\ ComputePartitionKey(1, values)

SpecPk == InitPk /\ [][NextPk]_vars

-----------------------------------------------------------------------------
(* get_keyspace_name and get_table_name over every list of column            *)
(* descriptors                                                               *)

\* largest number of column descriptors of a statement
MaxCols == 2

ColumnSpecs ==
    {ColumnSpec(ks, table, "a") : ks \in {"ks1", "ks2"}, table \in {"t1", "t2"}}

InitMeta ==
    /\ \E col_specs \in SeqsUpTo(ColumnSpecs, MaxCols), pk \in ObjPkIndexes :
          stmts = [h \in Handles |->
                     IF h = 1
                     THEN Some(new(StatementId, FALSE,
                                   [col_specs |-> col_specs, pk_indexes |-> pk],
                                   StatementText, None, ConfigUnset))
                     ELSE None]
    /\ lastOp = Op("new", 1, 1, BoolArg(FALSE), FALSE)
    /\ bound_values = <<>>
    /\ result = None
    /\ nops = 0
    /\ builder = SessionBuilder_new

GetKeyspaceName(h) ==
    /\ Live(h) /\ nops = 0
    /\ result' = Some(get_keyspace_name(S(h)))
    /\ lastOp' = Op("get_keyspace_name", h, h, NoArg, FALSE)
    /\ nops' = nops + 1
    /\ UNCHANGED <<stmts, bound_values, builder>>

GetTableName(h) ==
    /\ Live(h) /\ nops = 0
    /\ result' = Some(get_table_name(S(h)))
    /\ lastOp' = Op("get_table_name", h, h, NoArg, FALSE)
    /\ nops' = nops + 1
    /\ UNCHANGED <<stmts, bound_values, builder>>

NextMeta ==
    \/ \E h \in Handles : GetKeyspaceName(h)
    \/ \E h \in Handles : GetTableName(h)

SpecMeta == InitMeta /\ [][NextMeta]_vars

-----------------------------------------------------------------------------
(* SessionBuilder: every sequence of node and option calls *)

\* largest number of entries of known_nodes
MaxKnownNodes == 3

\* largest slice passed to known_nodes and known_nodes_addr
MaxNodeList == 2

\* a hostname may spell an address: it stays a hostname
Hostnames == {"host1", "172.17.0.3:1357"}

SocketAddrs == {"172.17.0.3:1357", "172.17.0.4:9090"}

Compressions == {"Lz4", "Snappy"}

KeyspaceNames == {"ks_name_1", "ks_name_2"}

\* room for n more known nodes
Room(n) == Len(builder.config.known_nodes) + n <= MaxKnownNodes

\* the builder is consumed and returned by every method
Build(op, arg, self) ==
    /\ builder' = self
    /\ lastOp' = Op(op, 1, 1, arg, FALSE)
    /\ UNCHANGED <<stmts, bound_values, result, nops>>

InitBuilder ==
    /\ stmts = [h \in Handles |-> None]
    /\ lastOp = Op("SessionBuilder::new", 1, 1, NoArg, FALSE)
    /\ bound_values = <<>>
    /\ result = None
    /\ nops = 0
    /\ builder = SessionBuilder_new

KnownNode(hostname) ==
    /\ Room(1)
    /\ Build("known_node", StrArg(hostname), known_node(builder, hostname))

KnownNodeAddr(node_addr) ==
    /\ Room(1)
    /\ Build("known_node_addr", StrArg(node_addr),
             known_node_addr(builder, node_addr))

KnownNodes(hostnames) ==
    /\ Room(Len(hostnames))
    /\ Build("known_nodes", ListArg(hostnames), known_nodes(builder, hostnames))

KnownNodesAddr(node_addrs) ==
    /\ Room(Len(node_addrs))
    /\ Build("known_nodes_addr", ListArg(node_addrs),
             known_nodes_addr(builder, node_addrs))

Compression(c) == Build("compression", OptStrArg(c), compression(builder, c))

TcpNodelay(nodelay) ==
    Build("tcp_nodelay", BoolArg(nodelay), tcp_nodelay(builder, nodelay))

UseKeyspace(keyspace_name, case_sensitive) ==
    Build("use_keyspace", StrBoolArg(keyspace_name, case_sensitive),
          use_keyspace(builder, keyspace_name, case_sensitive))

NextBuilder ==
    \/ \E hostname \in Hostnames : KnownNode(hostname)
    \/ \E node_addr \in SocketAddrs : KnownNodeAddr(node_addr)
    \/ \E hostnames \in SeqsUpTo(Hostnames, MaxNodeList) : KnownNodes(hostnames)
    \/ \E node_addrs \in SeqsUpTo(SocketAddrs, MaxNodeList) :
          KnownNodesAddr(node_addrs)
    \/ \E c \in Opt(Compressions) : Compression(c)
    \/ \E nodelay \in BOOLEAN : TcpNodelay(nodelay)
    \/ \E keyspace_name \in KeyspaceNames, case_sensitive \in BOOLEAN :
          UseKeyspace(keyspace_name, case_sensitive)

SpecBuilder == InitBuilder /\ [][NextBuilder]_vars

-----------------------------------------------------------------------------
(* What the properties speak about *)

\* the last operation was a call of compute_partition_key
JustComputed == lastOp.op = "compute_partition_key"

\* its result
R == Unwrap(result)

\* the pk_indexes of the statement it was called on
Pk == S(lastOp.h).metadata.pk_indexes

\* every declared key index has a bound value
AllPresent(pk, values) == \A k \in 1..Len(pk) : pk[k].index < Len(values)

\* the bound value (an Option) of the k-th entry of pk
ValueOf(pk, values, k) == values[pk[k].index + 1]

\* the entry of pk that holds the key column number s
EntryOf(pk, s) == CHOOSE k \in 1..Len(pk) : pk[k].sequence = s

\* the entries of pk bound to a non-null value longer than 65535 bytes
Oversize(pk, values) ==
    {k \in 1..Len(pk) : /\ pk[k].index < Len(values)
                        /\ IsSome(ValueOf(pk, values, k))
                        /\ BLen(Unwrap(ValueOf(pk, values, k))) > 65535}

\* the entries of pk bound to a null
Nulls(pk, values) ==
    {k \in 1..Len(pk) : pk[k].index < Len(values) /\ ValueOf(pk, values, k) = None}

\* (2-byte big-endian length, raw value, 0x00)
Frame(v) ==
    BConcat(BConcat(FromBytes(<<BLen(v) \div 256, BLen(v) % 256>>), v),
            FromBytes(<<0>>))

\* the frames of the non-null key columns s, s+1, .. in this order
RECURSIVE ExpectedKey(_, _, _)
ExpectedKey(pk, values, s) ==
    IF s >= Len(pk)
    THEN <<>>
    ELSE LET o == ValueOf(pk, values, EntryOf(pk, s))
         IN  BConcat(IF IsSome(o) THEN Frame(Unwrap(o)) ELSE <<>>,
                     ExpectedKey(pk, values, s + 1))

ExamplePk == <<[index |-> 0, sequence |-> 1], [index |-> 1, sequence |-> 0]>>

ExampleValues == <<Some(X), Some(Y)>>

-----------------------------------------------------------------------------
(* Properties of compute_partition_key, checked under SpecPk *)

\* C1: with two or more key columns, a value at every key index and no
\* non-null key value longer than 65535 bytes, the result is Ok with the
\* frames (2-byte big-endian length, value, 0x00) of the non-null key
\* columns in ascending sequence order; pk_indexes [{0,1},{1,0}] with
\* values [X, Y] give (2, Y, 0, 4, X, 0).
C1_CompositeKeyInSequenceOrder ==
    JustComputed =>
        /\ (/\ Len(Pk) >= 2
            /\ AllPresent(Pk, bound_values)
            /\ Oversize(Pk, bound_values) = {})
           => R = Ok(ExpectedKey(Pk, bound_values, 0))
        /\ (Pk = ExamplePk /\ bound_values = ExampleValues)
           => R = Ok(FromBytes(<<0, 2, 202, 254, 0, 0, 4, 222, 173, 190, 239, 0>>))

C1_Witness ==
    /\ JustComputed
    /\ Pk = ExamplePk
    /\ bound_values = ExampleValues
    /\ R.kind = "Ok"

\* C2: with exactly one key column bound to a non-null value, the result is
\* Ok with exactly the bytes of that value, whatever else is bound.
C2_SingleColumnRawBytes ==
    (/\ JustComputed
     /\ Len(Pk) = 1
     /\ AllPresent(Pk, bound_values)
     /\ IsSome(ValueOf(Pk, bound_values, 1)))
    => R = Ok(Unwrap(ValueOf(Pk, bound_values, 1)))

C2_Witness ==
    /\ JustComputed
    /\ Len(Pk) = 1
    /\ Pk[1].index = 1
    /\ Len(bound_values) = 3
    /\ bound_values[2] = Some(X)
    /\ R = Ok(X)

\* C3: the result is NoPkIndexValue(index, n) exactly when some declared key
\* index is >= the number n of bound values; index is then a declared key
\* index without a value and n is the number of bound values; a statement
\* without key columns never gets this error.
C3_NoPkIndexValueIffMissing ==
    JustComputed =>
        /\ (R.kind = "NoPkIndexValue") <=> ~AllPresent(Pk, bound_values)
        /\ R.kind = "NoPkIndexValue" =>
              /\ R.len = Len(bound_values)
              /\ R.index >= Len(bound_values)
              /\ \E k \in 1..Len(Pk) : Pk[k].index = R.index
        /\ Pk = <<>> => R.kind /= "NoPkIndexValue"

C3_Witness ==
    /\ JustComputed
    /\ Len(Pk) >= 2
    /\ Len(bound_values) = 2
    /\ R = NoPkIndexValue(2, 2)

\* C4: in the composite path with all key values present, the call succeeds
\* when every non-null key value is at most 65535 bytes long (a value of
\* 65535 bytes gets the prefix 0xFFFF) and fails with ValueTooLong(len), len
\* the length of a key value of 65536 bytes or more, otherwise; the limit
\* applies to each component, not to their sum.
C4_LengthLimitPerComponent ==
    (/\ JustComputed
     /\ Len(Pk) >= 2
     /\ AllPresent(Pk, bound_values))
    => LET over == Oversize(Pk, bound_values)
           first == ValueOf(Pk, bound_values, EntryOf(Pk, 0))
       IN  /\ over = {} => R.kind = "Ok"
           /\ over # {} =>
                 /\ R.kind = "ValueTooLong"
                 /\ R.len >= 65536
                 /\ \E k \in over :
                       R.len = BLen(Unwrap(ValueOf(Pk, bound_values, k)))
           /\ (over = {} /\ IsSome(first) /\ BLen(Unwrap(first)) = 65535)
              => SubSeq(R.bytes, 1, 2) = <<Run(255, 2), Unwrap(first)[1]>>
           /\ (\A k \in 1..Len(Pk) : ValueOf(Pk, bound_values, k) = Some(Huge))
              => R = ValueTooLong(65536)

\* two components of 65535 bytes each make a key of 131076 bytes
C4_Witness ==
    /\ JustComputed
    /\ Len(Pk) = 2
    /\ AllPresent(Pk, bound_values)
    /\ \A k \in 1..2 : ValueOf(Pk, bound_values, k) = Some(Big)
    /\ R.kind = "Ok"
    /\ BLen(R.bytes) = 2 * (65535 + 3)

\* C5 as stated: with at least one key column, a non-null key value longer
\* than 65535 bytes always makes the call fail with ValueTooLong.
C5_Original ==
    (/\ JustComputed
     /\ Len(Pk) >= 1
     /\ Oversize(Pk, bound_values) # {})
    => R.kind = "ValueTooLong"

\* C5 amended: with two or more key columns the call never returns Ok for a
\* key with a component longer than 65535 bytes: it fails with
\* ValueTooLong(len), len the length of such a component, when every key
\* index has a value, and with NoPkIndexValue otherwise; with one key column
\* no length is checked and the value's bytes are returned whatever their
\* length.
C5_OversizeRejectedInCompositeOnly ==
    (JustComputed /\ Oversize(Pk, bound_values) # {})
    => /\ Len(Pk) >= 2 =>
            /\ R.kind # "Ok"
            /\ AllPresent(Pk, bound_values) =>
                  /\ R.kind = "ValueTooLong"
                  /\ \E k \in Oversize(Pk, bound_values) :
                        R.len = BLen(Unwrap(ValueOf(Pk, bound_values, k)))
            /\ ~AllPresent(Pk, bound_values) => R.kind = "NoPkIndexValue"
       /\ Len(Pk) = 1 =>
            /\ R.kind = "Ok"
            /\ R.bytes = Unwrap(ValueOf(Pk, bound_values, 1))

C5_Witness ==
    /\ JustComputed
    /\ Len(Pk) = 3
    /\ AllPresent(Pk, bound_values)
    /\ Oversize(Pk, bound_values) # {}
    /\ R = ValueTooLong(65537)

\* C6: a key column bound to a null causes no error and adds no byte: in the
\* composite path the result is made of the frames of the other columns in
\* sequence order (no prefix and no 0x00 for the null), in the single-column
\* path it is Ok with an empty key.
C6_NullContributesNothing ==
    (/\ JustComputed
     /\ AllPresent(Pk, bound_values)
     /\ Nulls(Pk, bound_values) # {})
    => LET nonnull == (1..Len(Pk)) \ Nulls(Pk, bound_values)
           len(k) == BLen(Unwrap(ValueOf(Pk, bound_values, k)))
           RECURSIVE Size(_)
           Size(K) == IF K = {} THEN 0
                      ELSE LET k == CHOOSE x \in K : TRUE
                           IN  2 + len(k) + 1 + Size(K \ {k})
       IN  /\ R.kind # "NoPkIndexValue"
           /\ R.kind = "ValueTooLong" => \E k \in nonnull : R.len = len(k)
           /\ Oversize(Pk, bound_values) = {} =>
                 /\ R.kind = "Ok"
                 /\ BLen(R.bytes) = Size(nonnull)
                 /\ R.bytes = ExpectedKey(Pk, bound_values, 0)
           /\ Len(Pk) = 1 => R = Ok(<<>>)

\* the null is the last key column and the only one after the first
C6_Witness ==
    /\ JustComputed
    /\ Len(Pk) = 2
    /\ AllPresent(Pk, bound_values)
    /\ ValueOf(Pk, bound_values, EntryOf(Pk, 1)) = None
    /\ ValueOf(Pk, bound_values, EntryOf(Pk, 0)) = Some(X)
    /\ R = Ok(Frame(X))

\* the key layouts that bind the key columns of pk at the same bind-marker
\* indexes in another order
Rebound(pk) ==
    {[k \in 1..Len(pk) |-> [index |-> pk[k].index, sequence |-> p[k]]] :
        p \in KeyOrders(Len(pk))}

\* the bound values for the layout pk2: key column number s gets the value it
\* has under (pk, values), the other positions keep theirs
Rebind(pk, values, pk2) ==
    [i \in 1..Len(values) |->
        IF \E k \in 1..Len(pk2) : pk2[k].index = i - 1
        THEN LET k == CHOOSE k \in 1..Len(pk2) : pk2[k].index = i - 1
             IN  ValueOf(pk, values, EntryOf(pk, pk2[k].sequence))
        ELSE values[i]]

\* C7: two statements with the same key columns bound at permuted bind-marker
\* indexes, and bound values that give every key column the same value in
\* both, get the same result.
C7_BindOrderIrrelevant ==
    (JustComputed /\ AllPresent(Pk, bound_values))
    => \A pk2 \in Rebound(Pk) :
          compute_partition_key([metadata |-> PreparedMetadata(pk2)],
                                Rebind(Pk, bound_values, pk2)) = R

\* two key columns bound in reverse key order, a non-key value between them;
\* the other statement binds them in key order
C7_Witness ==
    /\ JustComputed
    /\ Pk = <<[index |-> 0, sequence |-> 1], [index |-> 2, sequence |-> 0]>>
    /\ bound_values = <<Some(X), Some(Huge), Some(Y)>>
    /\ R = Ok(BConcat(Frame(Y), Frame(X)))
    /\ <<[index |-> 0, sequence |-> 0], [index |-> 2, sequence |-> 1]>>
       \in Rebound(Pk)
    /\ Rebind(Pk, bound_values,
              <<[index |-> 0, sequence |-> 0], [index |-> 2, sequence |-> 1]>>)
       = <<Some(Y), Some(Huge), Some(X)>>

\* pk_indexes sorted by strictly ascending index
Ascending(pk) == \A k \in 1..(Len(pk) - 1) : pk[k].index < pk[k + 1].index

\* the lookups the composite path has just made
Steps == lookup_steps(Pk, bound_values, 1, 0, 0)

\* C20: in the composite path over pk_indexes in strictly ascending index
\* order, every lookup of the forward cursor has a non-negative gap
\* index - offset, starts at the position the running offset names, yields
\* the bound value at that index (nothing when the index is past the end),
\* as a lookup from the start would, and moves the cursor strictly forward
\* to index + 1; the call fails with NoPkIndexValue exactly when a lookup
\* yields nothing.
C20_ForwardCursorLookup ==
    (JustComputed /\ Len(Pk) # 1 /\ Ascending(Pk)) =>
       /\ \A k \in 1..Len(Steps) :
             LET step == Steps[k]
             IN  /\ step.index - step.offset >= 0
                 /\ step.from = step.offset
                 /\ step.item = IF step.index < Len(bound_values)
                                THEN Some(bound_values[step.index + 1])
                                ELSE None
                 /\ IsSome(step.item) =>
                       /\ step.to = step.index + 1
                       /\ step.to > step.from
       /\ R.kind = "NoPkIndexValue" <=>
             (Steps # <<>> /\ Steps[Len(Steps)].item = None)
       /\ R.kind # "NoPkIndexValue" => Len(Steps) = Len(Pk)

\* a key over the bind markers 0 and 2: the second lookup skips one value
C20_Witness ==
    /\ JustComputed
    /\ Pk = <<[index |-> 0, sequence |-> 1], [index |-> 2, sequence |-> 0]>>
    /\ bound_values = <<Some(X), None, Some(Y)>>
    /\ R.kind = "Ok"
    /\ Len(Steps) = 2 /\ Steps[2].offset = 1 /\ Steps[2].item = Some(Some(Y))

\* the entries of pk whose index has no bound value
Missing(pk, values) == {k \in 1..Len(pk) : pk[k].index >= Len(values)}

\* the smallest index among the entries K of pk
MinIndex(pk, K) ==
    LET k == CHOOSE k \in K : \A j \in K : pk[k].index <= pk[j].index
    IN  pk[k].index

\* the entry with the smallest sequence number among the entries K of pk
MinSequence(pk, K) ==
    CHOOSE k \in K : \A j \in K : pk[k].sequence <= pk[j].sequence

\* C23: in the composite path over pk_indexes in ascending index order, a
\* missing bound value is reported before any length: whenever some key
\* index has no value the result is NoPkIndexValue with the smallest such
\* index, also when a component is oversize; when no value is missing and
\* some components are oversize the result is ValueTooLong with the length
\* of the oversize component of the smallest sequence number.
C23_MissingBeforeTooLong ==
    (JustComputed /\ Len(Pk) # 1 /\ Ascending(Pk)) =>
       /\ Missing(Pk, bound_values) # {} =>
             R = NoPkIndexValue(MinIndex(Pk, Missing(Pk, bound_values)),
                                Len(bound_values))
       /\ (Missing(Pk, bound_values) = {} /\ Oversize(Pk, bound_values) # {}) =>
             R = ValueTooLong(
                    BLen(Unwrap(ValueOf(Pk, bound_values,
                                        MinSequence(Pk, Oversize(Pk, bound_values))))))

\* two oversize components and the third key index without a value
C23_Witness ==
    /\ JustComputed
    /\ Len(Pk) = 3
    /\ bound_values = <<Some(Huger), Some(Huge)>>
    /\ Oversize(Pk, bound_values) = {1, 2}
    /\ R = NoPkIndexValue(2, 2)

\* the positions of values that no entry of pk names
NonKey(pk, values) ==
    {i \in 1..Len(values) : \A k \in 1..Len(pk) : pk[k].index + 1 # i}

\* C24: replacing the bound value at a position that is no partition-key
\* index by any other value leaves the result as it is, key bytes or error;
\* two bound-value lists of the same length that agree at every index of
\* pk_indexes differ by such replacements, so they get the same result.
\* Without key columns the result is Ok with an empty key.
C24_NonKeyValuesIgnored ==
    JustComputed =>
       /\ \A i \in NonKey(Pk, bound_values), v \in Values :
             compute_partition_key(S(lastOp.h), [bound_values EXCEPT ![i] = v]) = R
       /\ Pk = <<>> => R = Ok(<<>>)

\* an oversize value between the two key values
C24_Witness ==
    /\ JustComputed
    /\ Pk = <<[index |-> 0, sequence |-> 0], [index |-> 2, sequence |-> 1]>>
    /\ bound_values = <<Some(Y), Some(Huger), Some(X)>>
    /\ NonKey(Pk, bound_values) = {2}
    /\ R = Ok(BConcat(Frame(Y), Frame(X)))

-----------------------------------------------------------------------------
(* Properties of the statement object, checked under Spec *)

\* the results of the override getters of a statement, with the history
\* listener it holds
Getters(self) ==
    <<get_consistency(self), get_serial_consistency(self),
      get_is_idempotent(self), get_tracing(self), get_timestamp(self),
      get_request_timeout(self), get_execution_profile_handle(self),
      self.config.history_listener, get_page_size(self)>>

\* the operations that change overrides or the page size
MutatorOps ==
    {"set_consistency", "set_serial_consistency", "set_is_idempotent",
     "set_tracing", "set_timestamp", "set_request_timeout",
     "set_history_listener", "remove_history_listener",
     "set_execution_profile_handle", "set_page_size", "disable_paging"}

\* C8: is_token_aware() is false exactly when metadata.pk_indexes is empty,
\* and no operation changes it: a statement keeps its answer through every
\* step, and a duplicate starts with the answer of its original.
C8_TokenAwareFixed ==
    [][\A h \in Handles :
          IsSome(stmts'[h]) =>
             /\ is_token_aware(Unwrap(stmts'[h]))
                <=> Len(Unwrap(stmts'[h]).metadata.pk_indexes) > 0
             /\ Live(h) =>
                   is_token_aware(Unwrap(stmts'[h])) = is_token_aware(S(h))
             /\ ~Live(h) =>
                   is_token_aware(Unwrap(stmts'[h])) = is_token_aware(S(lastOp'.h))]_vars

C8_Witness ==
    /\ Live(1) /\ Live(2)
    /\ JustComputed
    /\ lastOp.h = 2
    /\ is_token_aware(S(1)) /\ is_token_aware(S(2))

\* C9: once a statement is duplicated, an override setter, a page-size
\* change or remove_history_listener on one handle leaves every getter
\* result of the other handle as it was.
C9_DuplicatesIndependent ==
    [][lastOp'.op \in MutatorOps =>
          \A h \in Handles :
             (Live(h) /\ h # lastOp'.h) =>
                /\ IsSome(stmts'[h])
                /\ Getters(Unwrap(stmts'[h])) = Getters(S(h))]_vars

C9_Witness ==
    /\ Live(1) /\ Live(2)
    /\ lastOp.op \in MutatorOps
    /\ ~lastOp.panicked
    /\ Getters(S(1)) # Getters(S(2))

\* C10: a duplicate has the id, metadata, statement text, page size,
\* partitioner name, is_confirmed_lwt flag and overrides of its original and
\* no tracing id, however many the original holds; the original keeps its
\* tracing ids.
C10_CloneCopiesAllButTracingIds ==
    [][lastOp'.op = "clone" =>
          LET orig == S(lastOp'.h)
              dup == Unwrap(stmts'[lastOp'.dst])
          IN  /\ dup.id = orig.id
              /\ dup.metadata = orig.metadata
              /\ dup.statement = orig.statement
              /\ dup.page_size = orig.page_size
              /\ dup.partitioner_name = orig.partitioner_name
              /\ dup.is_confirmed_lwt = orig.is_confirmed_lwt
              /\ dup.config = orig.config
              /\ dup.prepare_tracing_ids = <<>>
              /\ Unwrap(stmts'[lastOp'.h]).prepare_tracing_ids
                 = orig.prepare_tracing_ids]_vars

C10_Witness ==
    /\ lastOp.op = "clone"
    /\ Live(lastOp.dst)
    /\ Len(S(lastOp.h).prepare_tracing_ids) > 0
    /\ S(lastOp.dst).prepare_tracing_ids = <<>>

\* C11 as stated: after construction with any page_size argument and after
\* any sequence of operations, get_page_size() is None or Some(n) with n > 0.
C11_PageSizePositive ==
    \A h \in Handles :
       Live(h) =>
          \/ get_page_size(S(h)) = None
          \/ Unwrap(get_page_size(S(h))) > 0

\* C12: set_page_size(n) with n <= 0 panics and leaves the statement as it
\* was; with n > 0 it makes get_page_size() return Some(n); disable_paging()
\* makes it return None.
C12_SetPageSizeAsserts ==
    [][/\ lastOp'.op = "set_page_size" =>
             IF lastOp'.arg.n <= 0
             THEN /\ lastOp'.panicked
                  /\ stmts' = stmts
             ELSE /\ ~lastOp'.panicked
                  /\ get_page_size(Unwrap(stmts'[lastOp'.h]))
                     = Some(lastOp'.arg.n)
       /\ lastOp'.op = "disable_paging" =>
             get_page_size(Unwrap(stmts'[lastOp'.h])) = None]_vars

\* a rejected page size after an accepted one
C12_Witness ==
    /\ lastOp.op = "set_page_size"
    /\ lastOp.panicked
    /\ lastOp.arg.n = 0
    /\ nops = 2
    /\ get_page_size(S(lastOp.h)) = Some(1)

\* C13: is_confirmed_lwt(), get_id() and get_statement() return what new was
\* given; no operation changes them, and a duplicate reports the values of
\* its original.
C13_IdentityFixed ==
    /\ [](lastOp.op = "new" =>
             /\ is_confirmed_lwt(S(1)) = lastOp.arg.b
             /\ get_id(S(1)) = StatementId
             /\ get_statement(S(1)) = StatementText)
    /\ [][\A h \in Handles :
             IsSome(stmts'[h]) =>
                LET from == IF Live(h) THEN S(h) ELSE S(lastOp'.h)
                    to == Unwrap(stmts'[h])
                IN  /\ is_confirmed_lwt(to) = is_confirmed_lwt(from)
                    /\ get_id(to) = get_id(from)
                    /\ get_statement(to) = get_statement(from)]_vars

C13_Witness ==
    /\ Live(1) /\ Live(2)
    /\ lastOp.op = "set_partitioner_name"
    /\ lastOp.h = 2
    /\ is_confirmed_lwt(S(1)) /\ is_confirmed_lwt(S(2))

\* the Option argument a call was made with
ArgOptStr(arg) == IF arg.some THEN Some(arg.s) ELSE None

ArgOptInt(arg) == IF arg.some THEN Some(arg.n) ELSE None

\* C15: right after a setter call the matching getter returns what the call
\* stored: Some(c) after set_consistency(c), and the argument itself after
\* set_serial_consistency, set_is_idempotent, set_tracing, set_timestamp,
\* set_request_timeout and set_execution_profile_handle; a None argument is
\* returned as None, nothing is filled in for it.
C15_GetterReturnsLastSet ==
    LET self == S(lastOp.h)
        arg == lastOp.arg
    IN  /\ lastOp.op = "set_consistency" =>
              get_consistency(self) = Some(arg.s)
        /\ lastOp.op = "set_serial_consistency" =>
              get_serial_consistency(self) = ArgOptStr(arg)
        /\ lastOp.op = "set_is_idempotent" => get_is_idempotent(self) = arg.b
        /\ lastOp.op = "set_tracing" => get_tracing(self) = arg.b
        /\ lastOp.op = "set_timestamp" => get_timestamp(self) = ArgOptInt(arg)
        /\ lastOp.op = "set_request_timeout" =>
              get_request_timeout(self) = ArgOptInt(arg)
        /\ lastOp.op = "set_execution_profile_handle" =>
              get_execution_profile_handle(self) = ArgOptStr(arg)

\* set_timestamp(None) on a duplicate of a statement whose timestamp is set
C15_Witness ==
    /\ lastOp.op = "set_timestamp" /\ lastOp.h = 2 /\ ~lastOp.arg.some
    /\ Live(1) /\ get_timestamp(S(1)) = Some(42)
    /\ get_timestamp(S(2)) = None

Call(op, arg) == [op |-> op, arg |-> arg]

SetterCalls ==
    {Call("set_consistency", StrArg(c)) : c \in Consistencies}
    \cup {Call("set_serial_consistency", OptStrArg(sc)) :
             sc \in Opt(SerialConsistencies)}
    \cup {Call("set_is_idempotent", BoolArg(b)) : b \in BOOLEAN}
    \cup {Call("set_tracing", BoolArg(b)) : b \in BOOLEAN}
    \cup {Call("set_timestamp", OptIntArg(t)) : t \in Opt(Timestamps)}
    \cup {Call("set_request_timeout", OptIntArg(d)) : d \in Opt(Durations)}
    \cup {Call("set_history_listener", StrArg(l)) : l \in Listeners}
    \cup {Call("set_execution_profile_handle", OptStrArg(p)) :
             p \in Opt(ProfileHandles)}

OverrideCalls == SetterCalls \cup {Call("remove_history_listener", NoArg)}

\* the statement after the call
ApplyCall(call, self) ==
    CASE call.op = "set_consistency" -> set_consistency(self, call.arg.s)
      [] call.op = "set_serial_consistency" ->
            set_serial_consistency(self, ArgOptStr(call.arg))
      [] call.op = "set_is_idempotent" -> set_is_idempotent(self, call.arg.b)
      [] call.op = "set_tracing" -> set_tracing(self, call.arg.b)
      [] call.op = "set_timestamp" -> set_timestamp(self, ArgOptInt(call.arg))
      [] call.op = "set_request_timeout" ->
            set_request_timeout(self, ArgOptInt(call.arg))
      [] call.op = "set_history_listener" ->
            set_history_listener(self, call.arg.s)
      [] call.op = "set_execution_profile_handle" ->
            set_execution_profile_handle(self, ArgOptStr(call.arg))
      [] call.op = "remove_history_listener" -> remove_history_listener(self)

\* the field of StatementConfig a call writes
FieldOf(op) ==
    CASE op = "set_consistency" -> "consistency"
      [] op = "set_serial_consistency" -> "serial_consistency"
      [] op = "set_is_idempotent" -> "is_idempotent"
      [] op = "set_tracing" -> "tracing"
      [] op = "set_timestamp" -> "timestamp"
      [] op = "set_request_timeout" -> "request_timeout"
      [] op = "set_history_listener" -> "history_listener"
      [] op = "set_execution_profile_handle" -> "execution_profile_handle"
      [] op = "remove_history_listener" -> "history_listener"

\* the call a step has just made
LastCall == Call(lastOp.op, lastOp.arg)

\* C17 as stated: the override setters commute. For every setter call a
\* statement has just received and every other setter call, making the two
\* calls in either order ends with the same getter results.
C17_Original ==
    [][lastOp'.op \in {c.op : c \in SetterCalls} =>
          \A c2 \in SetterCalls :
             Getters(ApplyCall(c2, Unwrap(stmts'[lastOp'.h])))
             = Getters(ApplyCall(LastCall', ApplyCall(c2, S(lastOp'.h))))]_vars

\* C17: calls that write different override fields commute; of two calls
\* that write the same field (two calls of one setter, or
\* set_history_listener and remove_history_listener) the later one decides,
\* so their order matters whenever they store different values.
C17_DifferentFieldsCommute ==
    [][lastOp'.op \in {c.op : c \in OverrideCalls} =>
          \A c2 \in OverrideCalls :
             LET before == S(lastOp'.h)
                 after == Unwrap(stmts'[lastOp'.h])
             IN  IF FieldOf(c2.op) # FieldOf(lastOp'.op)
                 THEN ApplyCall(c2, after) = ApplyCall(LastCall', ApplyCall(c2, before))
                 ELSE /\ ApplyCall(LastCall', ApplyCall(c2, before)) = after
                      /\ ApplyCall(c2, after) = ApplyCall(c2, before)]_vars

\* set_consistency(Quorum) on the duplicate of a statement whose consistency
\* was set to One: the later call decided
C17_Witness ==
    /\ lastOp.op = "set_consistency" /\ lastOp.h = 2 /\ lastOp.arg.s = "Quorum"
    /\ Live(1) /\ get_consistency(S(1)) = Some("One")
    /\ get_consistency(S(2)) = Some("Quorum")
    /\ Getters(ApplyCall(Call("set_consistency", StrArg("One")), S(2)))
       # Getters(S(2))

\* the fields of StatementConfig that are an Option
OverrideFields ==
    {"consistency", "serial_consistency", "timestamp", "request_timeout",
     "execution_profile_handle", "history_listener"}

\* the fields a public operation can store None into
ClearableFields ==
    {"timestamp", "request_timeout", "execution_profile_handle",
     "history_listener"}

\* the field holds Some(..)
IsSet(field, self) == self.config[field] # None

\* C18 as stated: from every state in which an override field is set, some
\* public operation leaves it unset.
C18_Original ==
    \A h \in Handles :
       Live(h) =>
          \A field \in OverrideFields :
             IsSet(field, S(h)) =>
                \E c \in OverrideCalls : ~IsSet(field, ApplyCall(c, S(h)))

\* C18: every override field can be set from every state and set again to
\* another value; timestamp, request timeout, execution-profile handle and
\* history listener can be returned to unset (their setter called with None,
\* remove_history_listener); consistency and serial consistency, once set,
\* stay set through every operation: set_consistency takes no None and
\* set_serial_consistency(None) stores Some(None).
C18_OverrideTransitions ==
    /\ [](\A h \in Handles :
             Live(h) =>
                /\ \A field \in OverrideFields :
                      \E c \in OverrideCalls :
                         /\ IsSet(field, ApplyCall(c, S(h)))
                         /\ ApplyCall(c, S(h)).config[field] # S(h).config[field]
                /\ \A field \in ClearableFields :
                      IsSet(field, S(h)) =>
                         \E c \in OverrideCalls : ~IsSet(field, ApplyCall(c, S(h))))
    /\ [][\A h \in Handles :
             Live(h) =>
                \A field \in OverrideFields \ ClearableFields :
                   IsSet(field, S(h)) => IsSet(field, Unwrap(stmts'[h]))]_vars

\* the listener of a duplicate removed, and set_serial_consistency(None)
\* would leave the serial consistency of the duplicate set
C18_Witness ==
    /\ lastOp.op = "remove_history_listener" /\ lastOp.h = 2
    /\ Live(1) /\ IsSet("history_listener", S(1))
    /\ ~IsSet("history_listener", S(2))
    /\ IsSet("serial_consistency",
             ApplyCall(Call("set_serial_consistency", NoArg), S(2)))

\* C19 as stated: get_serial_consistency() is None exactly when no
\* serial-consistency override is stored.
C19_Original ==
    \A h \in Handles :
       Live(h) =>
          (get_serial_consistency(S(h)) = None
           <=> S(h).config.serial_consistency = None)

\* C19: set_serial_consistency(sc) always stores an override, Some(sc);
\* get_serial_consistency() returns Some(x) exactly when Some(Some(x)) is
\* stored, and None both when nothing is stored and when Some(None) is
\* stored, so after set_serial_consistency(None) an override is set and the
\* getter returns None.
C19_GetterFlattens ==
    /\ \A h \in Handles :
          Live(h) =>
             LET stored == S(h).config.serial_consistency
                 got == get_serial_consistency(S(h))
             IN  /\ got = None <=> (stored = None \/ stored = Some(None))
                 /\ IsSome(got) => stored = Some(got)
    /\ lastOp.op = "set_serial_consistency" =>
          /\ S(lastOp.h).config.serial_consistency = Some(ArgOptStr(lastOp.arg))
          /\ get_serial_consistency(S(lastOp.h)) = ArgOptStr(lastOp.arg)

C19_Witness ==
    /\ lastOp.op = "set_serial_consistency" /\ ~lastOp.arg.some
    /\ S(lastOp.h).config.serial_consistency = Some(None)
    /\ get_serial_consistency(S(lastOp.h)) = None

-----------------------------------------------------------------------------
(* Properties of the table accessors, checked under SpecMeta *)

\* C14: get_keyspace_name() and get_table_name() return the keyspace and the
\* table of the first column descriptor, whatever the later ones say, and
\* None exactly when there is no column descriptor.
C14_NamesOfFirstColumn ==
    LET col_specs == S(lastOp.h).metadata.col_specs
        got == Unwrap(result)
    IN  /\ lastOp.op = "get_keyspace_name" =>
              /\ got = None <=> Len(col_specs) = 0
              /\ Len(col_specs) > 0 => got = Some(Head(col_specs).table_spec.ks_name)
        /\ lastOp.op = "get_table_name" =>
              /\ got = None <=> Len(col_specs) = 0
              /\ Len(col_specs) > 0 => got = Some(Head(col_specs).table_spec.table_name)

\* the second descriptor names another keyspace and another table
C14_Witness ==
    /\ lastOp.op = "get_keyspace_name"
    /\ S(lastOp.h).metadata.col_specs
       = <<ColumnSpec("ks1", "t1", "a"), ColumnSpec("ks2", "t2", "a")>>
    /\ Unwrap(result) = Some("ks1")

-----------------------------------------------------------------------------
(* Properties of SessionBuilder, checked under SpecBuilder *)

\* the slice of hostnames as Hostname entries, the slice of addresses as
\* Address entries, in the order of the slice
AsHostnames(l) == [i \in 1..Len(l) |-> Hostname(l[i])]

AsAddresses(l) == [i \in 1..Len(l) |-> Address(l[i])]

\* C21: known_node, known_node_addr, known_nodes and known_nodes_addr each
\* put their node(s) at the end of config.known_nodes, after the entries
\* already there and in the order of the arguments, a hostname as a Hostname
\* entry and a socket address as an Address entry; so known_nodes lists all
\* nodes in call order.
C21_KnownNodesAppended ==
    [][LET old == builder.config.known_nodes
           now == builder'.config.known_nodes
           arg == lastOp'.arg
       IN  /\ lastOp'.op = "known_node" => now = old \o <<Hostname(arg.s)>>
           /\ lastOp'.op = "known_node_addr" => now = old \o <<Address(arg.s)>>
           /\ lastOp'.op = "known_nodes" => now = old \o AsHostnames(arg.l)
           /\ lastOp'.op = "known_nodes_addr" => now = old \o AsAddresses(arg.l)]_vars

\* a hostname, then two addresses in one call
C21_Witness ==
    /\ lastOp.op = "known_nodes_addr"
    /\ lastOp.arg.l = <<"172.17.0.4:9090", "172.17.0.3:1357">>
    /\ builder.config.known_nodes
       = <<Hostname("172.17.0.3:1357"), Address("172.17.0.4:9090"),
           Address("172.17.0.3:1357")>>

\* C22: compression(c) writes only compression (None included),
\* tcp_nodelay(b) only tcp_nodelay, use_keyspace(name, cs) writes
\* used_keyspace = Some(name) and keyspace_case_sensitive = cs and nothing
\* else, whatever was stored before, so the last call for an option
\* decides; the methods that add known nodes write only known_nodes, so
\* they leave compression as it was, None on a new builder.
C22_OptionSettersOverwriteOwnField ==
    /\ [][LET old == builder.config
              now == builder'.config
              arg == lastOp'.arg
          IN  /\ lastOp'.op = "compression" =>
                    now = [old EXCEPT !.compression = ArgOptStr(arg)]
              /\ lastOp'.op = "tcp_nodelay" =>
                    now = [old EXCEPT !.tcp_nodelay = arg.b]
              /\ lastOp'.op = "use_keyspace" =>
                    now = [old EXCEPT !.used_keyspace = Some(arg.s),
                                      !.keyspace_case_sensitive = arg.b]
              /\ lastOp'.op \in {"known_node", "known_node_addr",
                                 "known_nodes", "known_nodes_addr"} =>
                    now = [old EXCEPT !.known_nodes = now.known_nodes]]_vars
    /\ [](lastOp.op = "SessionBuilder::new" => builder.config.compression = None)

\* use_keyspace called again on a builder with known nodes and compression
C22_Witness ==
    /\ lastOp.op = "use_keyspace" /\ lastOp.arg.s = "ks_name_2" /\ ~lastOp.arg.b
    /\ builder.config.used_keyspace = Some("ks_name_2")
    /\ ~builder.config.keyspace_case_sensitive
    /\ builder.config.compression = Some("Snappy")
    /\ ~builder.config.tcp_nodelay
    /\ Len(builder.config.known_nodes) = 2

====
